---- MODULE Spec2Model ----
(***************************************************************************)
(* A model of the VK friends parser: HttpClient, Paginator and             *)
(* FriendsParser of vk_task.py and the run of main.py (parse, then         *)
(* create_report).                                                         *)
(*                                                                         *)
(* JSON values are tagged records [t, s, keys]: t is the shape, s the      *)
(* characters of a string / the digits of a number / the title of a        *)
(* mapping, keys the keys of a mapping.  A string is a sequence of         *)
(* one-character strings.                                                  *)
(***************************************************************************)
EXTENDS Integers, Sequences, FiniteSets, TLC

VARIABLES
    friendsDb,       \* the server's friend list (what friends.get pages over)
    selfCount,       \* Paginator.count, sent as the request's "count"
    callCount,       \* the count argument of get_all_friends
    output_format,   \* FriendsParser.output_format
    pc,              \* position of the run
    offset,          \* get_all_friends: offset
    friends_list,    \* get_all_friends: the accumulator
    requests,        \* the page requests sent so far, [offset, count]
    lastResponse,    \* the response to the last page request
    friends,         \* main: the value parse() returned
    sorted_friends,  \* create_report: sorted(friends_list, key=...)
    friend,          \* the raw record given to extract_data
    current_friend,  \* the record extract_data returned
    report_list,     \* create_report: report_list
    log,             \* the logger.info events
    writer,          \* the write method create_report called
    fileInit,        \* the output file before the run
    file,            \* the output file {output_name}.{output_format}
    error            \* the exception that ended the run

vars == <<friendsDb, selfCount, callCount, output_format, pc, offset,
          friends_list, requests, lastResponse, friends, sorted_friends,
          friend, current_friend, report_list, log, writer, fileInit, file,
          error>>

(***************************************************************************)
(* Bounds of the model.                                                    *)
(***************************************************************************)
MaxItems == 5       \* longest roster prefix the server holds
MaxFriends == 2     \* longest server list drawn freely from RawPool
MaxPageSize == 3    \* largest page size besides the default

(***************************************************************************)
(* Characters, digits, numbers.                                            *)
(***************************************************************************)
Digits == <<"0", "1", "2", "3", "4", "5", "6", "7", "8", "9">>

IsDigit(c) == \E i \in 1..10 : Digits[i] = c

DigitVal(c) == (CHOOSE i \in 1..10 : Digits[i] = c) - 1

Pow10(k) == IF k = 0 THEN 1 ELSE IF k = 1 THEN 10 ELSE IF k = 2 THEN 100 ELSE 1000

\* "%0wd" % n
Pad(n, w) == [i \in 1..w |-> Digits[((n \div Pow10(w - i)) % 10) + 1]]

\* str(n), 0 <= n <= 9999
Dec(n) == IF n < 10 THEN Pad(n, 1) ELSE IF n < 100 THEN Pad(n, 2)
          ELSE IF n < 1000 THEN Pad(n, 3) ELSE Pad(n, 4)

RECURSIVE ToNum(_)
\* int(p) of a run of digits, leading blanks skipped
ToNum(p) == IF p = <<>> THEN 0
            ELSE IF p[Len(p)] = " " THEN 0
            ELSE 10 * ToNum(SubSeq(p, 1, Len(p) - 1)) + DigitVal(p[Len(p)])

(***************************************************************************)
(* JSON values.                                                            *)
(***************************************************************************)
Absent == [t |-> "absent", s |-> <<>>, keys |-> {}]   \* the key is not in the dict

None == [t |-> "null", s |-> <<>>, keys |-> {}]

Str(s) == [t |-> "str", s |-> s, keys |-> {}]

Num(n) == [t |-> "int", s |-> Dec(n), keys |-> {}]

\* a mapping with the given keys; s is the value under "title"
Map(keys, title) == [t |-> "map", s |-> title, keys |-> keys]

\* bool(v)
Truthy(v) == CASE v.t = "str" -> v.s # <<>>
               [] v.t = "int" -> v.s # <<"0">>
               [] v.t = "map" -> v.keys # {}
               [] OTHER -> FALSE

\* the result of a call: a value, or the exception it raised
Ok(v) == [exc |-> "none", val |-> v]

Raise(e) == [exc |-> e, val |-> None]

\* dict.get(key): None when the key is absent
DictGet(d, key) == IF d[key].t = "absent" THEN None ELSE d[key]

\* element.get("title") on a mapping
MapGetTitle(element) == IF "title" \in element.keys THEN Str(element.s) ELSE None

(***************************************************************************)
(* FriendsParser.FIELDS and the keys of a raw record.                      *)
(***************************************************************************)
FIELDS == <<"first_name", "last_name", "country", "city", "bdate", "sex">>

FieldSet == {FIELDS[i] : i \in 1..Len(FIELDS)}

RawKeys == FieldSet \cup {"id"}

(***************************************************************************)
(* datetime.strptime(date, "%d.%m.%Y") and date.isoformat().               *)
(***************************************************************************)
RECURSIVE SplitOnDot(_)
\* the maximal dot-free runs of s
SplitOnDot(s) ==
    IF \A i \in 1..Len(s) : s[i] # "."
    THEN <<s>>
    ELSE LET k == CHOOSE i \in 1..Len(s) :
                      s[i] = "." /\ \A j \in 1..(i - 1) : s[j] # "."
         IN  <<SubSeq(s, 1, k - 1)>> \o SplitOnDot(SubSeq(s, k + 1, Len(s)))

NonZeroDigit(c) == IsDigit(c) /\ c # "0"

\* %d : 3[0-1]|[1-2]\d|0[1-9]|[1-9]| [1-9]
MatchD(p) ==
    \/ Len(p) = 2 /\ p[1] = "3" /\ p[2] \in {"0", "1"}
    \/ Len(p) = 2 /\ p[1] \in {"1", "2"} /\ IsDigit(p[2])
    \/ Len(p) = 2 /\ p[1] = "0" /\ NonZeroDigit(p[2])
    \/ Len(p) = 1 /\ NonZeroDigit(p[1])
    \/ Len(p) = 2 /\ p[1] = " " /\ NonZeroDigit(p[2])

\* %m : 1[0-2]|0[1-9]|[1-9]
MatchM(p) ==
    \/ Len(p) = 2 /\ p[1] = "1" /\ p[2] \in {"0", "1", "2"}
    \/ Len(p) = 2 /\ p[1] = "0" /\ NonZeroDigit(p[2])
    \/ Len(p) = 1 /\ NonZeroDigit(p[1])

\* %Y : \d\d\d\d
MatchY(p) == Len(p) = 4 /\ \A i \in 1..4 : IsDigit(p[i])

IsLeap(y) == y % 4 = 0 /\ (y % 100 # 0 \/ y % 400 = 0)

DaysInMonth(y, m) == IF m = 2 THEN (IF IsLeap(y) THEN 29 ELSE 28)
                     ELSE IF m \in {4, 6, 9, 11} THEN 30 ELSE 31

\* the date strptime builds, or ok = FALSE where it raises ValueError
Strptime(s) ==
    LET parts == SplitOnDot(s)
        shaped == /\ Len(parts) = 3
                  /\ MatchD(parts[1]) /\ MatchM(parts[2]) /\ MatchY(parts[3])
        d == ToNum(parts[1])
        m == ToNum(parts[2])
        y == ToNum(parts[3])
    IN  IF shaped /\ y >= 1 /\ d <= DaysInMonth(y, m)
        THEN [ok |-> TRUE, day |-> d, month |-> m, year |-> y]
        ELSE [ok |-> FALSE, day |-> 0, month |-> 0, year |-> 0]

\* date.isoformat(): "%04d-%02d-%02d"
IsoFormat(date) ==
    Pad(date.year, 4) \o <<"-">> \o Pad(date.month, 2) \o <<"-">> \o Pad(date.day, 2)

(***************************************************************************)
(* FriendsParser.get_value_from_data, get_date_value, extract_data.        *)
(***************************************************************************)
\* returns the element itself, the mapping not unwrapped
get_value_from_data_raw(fr, key) == Ok(DictGet(fr, key))

get_value_from_data(fr, key) ==
    LET element == DictGet(fr, key)
    IN  IF Truthy(element)
        THEN IF element.t = "map"
             THEN Ok(MapGetTitle(element))
             ELSE Raise("AttributeError")     \* str / int has no .get
        ELSE Ok(element)

get_date_value(fr, value) ==
    LET date == DictGet(fr, value)
    IN  IF date.t = "null" THEN Ok(None)
        ELSE IF date.t # "str" THEN Raise("TypeError")  \* strptime() argument 1 must be str
        ELSE LET date_obj == Strptime(date.s)
             IN  IF date_obj.ok THEN Ok(Str(IsoFormat(date_obj)))
                 ELSE Ok(None)                \* except ValueError: pass

\* one iteration of the loop over FIELDS
FieldValue(fr, field) ==
    IF field \in {"country", "city"} THEN get_value_from_data(fr, field)
    ELSE IF field = "bdate" THEN get_date_value(fr, "bdate")
    ELSE Ok(DictGet(fr, field))

\* the first field, in FIELDS order, whose extraction raises (0: none does)
FirstRaising(fr) ==
    IF \A i \in 1..Len(FIELDS) : FieldValue(fr, FIELDS[i]).exc = "none"
    THEN 0
    ELSE CHOOSE i \in 1..Len(FIELDS) :
             /\ FieldValue(fr, FIELDS[i]).exc # "none"
             /\ \A j \in 1..(i - 1) : FieldValue(fr, FIELDS[j]).exc = "none"

\* the placeholder where extract_data raised and returned nothing
NoPerson == [f \in FieldSet |-> Absent]

\* [exc, field, person]: the person dict, or the exception and the field raising it
extract_data(fr) ==
    LET k == FirstRaising(fr)
    IN  IF k = 0
        THEN [exc |-> "none", field |-> "",
              person |-> [f \in FieldSet |-> FieldValue(fr, f).val]]
        ELSE [exc |-> FieldValue(fr, FIELDS[k]).exc, field |-> FIELDS[k],
              person |-> NoPerson]

(***************************************************************************)
(* String comparison and sorted(friends_list, key=lambda d: d["first_name"]).*)
(***************************************************************************)
\* ord(c) of the characters first names are written with
Ord(c) == CASE c = "A" -> 65 [] c = "B" -> 66 [] c = "C" -> 67
            [] c = "a" -> 97 [] c = "b" -> 98 [] c = "c" -> 99
            [] c = "e" -> 101 [] c = "i" -> 105 [] c = "l" -> 108
            [] c = "o" -> 111 [] c = "r" -> 114

\* a < b on str: at the first difference, or a a proper prefix of b
StrLess(a, b) ==
    \E k \in 1..(Len(b)) :
        /\ \A j \in 1..(k - 1) : j <= Len(a) /\ a[j] = b[j]
        /\ k - 1 <= Len(a)
        /\ (k > Len(a) \/ Ord(a[k]) < Ord(b[k]))

\* x put last: the list is left in the order it came in
InsertByKey_append(done, x) == Append(done, x)

\* x placed before the first element whose key is greater: what a stable sort does
InsertByKey(done, x) ==
    LET after == {i \in 1..Len(done) : StrLess(x["first_name"].s, done[i]["first_name"].s)}
        k == IF after = {} THEN Len(done) + 1
             ELSE CHOOSE i \in after : \A j \in after : i <= j
    IN  SubSeq(done, 1, k - 1) \o <<x>> \o SubSeq(done, k, Len(done))

RECURSIVE StableSort(_)
StableSort(l) == IF l = <<>> THEN <<>>
                 ELSE InsertByKey(StableSort(SubSeq(l, 1, Len(l) - 1)), l[Len(l)])

\* the key read with d.get("first_name"): an absent key is None, no KeyError
SortedByFirstName_get(l) ==
    IF Len(l) >= 2 /\ \E i \in 1..Len(l) : l[i]["first_name"].t # "str"
    THEN [exc |-> "TypeError", val |-> <<>>]
    ELSE [exc |-> "none", val |-> StableSort(l)]

\* sorted(...): every key is computed first (KeyError), then compared (TypeError)
SortedByFirstName(l) ==
    IF \E i \in 1..Len(l) : l[i]["first_name"].t = "absent"
    THEN [exc |-> "KeyError", val |-> <<>>]
    ELSE IF Len(l) >= 2 /\ \E i \in 1..Len(l) : l[i]["first_name"].t # "str"
    THEN [exc |-> "TypeError", val |-> <<>>]     \* '<' not supported
    ELSE [exc |-> "none", val |-> StableSort(l)]

(***************************************************************************)
(* Exceptions.                                                             *)
(***************************************************************************)
NoCause == [type |-> "none", status |-> 0, detail |-> ""]

NoError == [type |-> "none", msg |-> "", args |-> <<>>, cause |-> NoCause]

Exc(type, msg) == [type |-> type, msg |-> msg, args |-> <<>>, cause |-> NoCause]

(***************************************************************************)
(* The server and HttpClient.                                              *)
(***************************************************************************)
Min(a, b) == IF a <= b THEN a ELSE b

\* friends.get: the slice [offset, offset + count) of the list
ServerPage(db, off, count) == SubSeq(db, off + 1, Min(off + count, Len(db)))

\* the responses a page request can get: [status, shape, items]
\* shape: what the decoded body holds under response.items
Responses(db, off, count) ==
    {[status |-> 200, shape |-> "items", items |-> ServerPage(db, off, count)]}
    \cup {[status |-> st, shape |-> "none", items |-> <<>>] : st \in {403, 404, 500}}
    \cup {[status |-> 200, shape |-> sh, items |-> <<>>] :
              sh \in {"no_response", "no_items", "items_null"}}

\* HttpClient.check_response: the body, or the exception with its message
check_response(response) ==
    IF response.status = 200
    THEN [exc |-> NoCause, body |-> response]
    ELSE [exc |-> [type |-> "Exception", status |-> response.status,
                   detail |-> IF response.status = 404 THEN "not found"
                              ELSE IF response.status = 500 THEN "internal error"
                              ELSE ""],
          body |-> response]

(***************************************************************************)
(* Paginator.get_friends: the items of one page, or the wrapped exception. *)
(***************************************************************************)
FetchMsg == "Error occurred while requesting friends list"

WrapFetch(e) == [type |-> "Exception", msg |-> FetchMsg, args |-> <<>>, cause |-> e]

\* the failure swallowed: an empty page instead of the exception
get_friends_swallow(response) ==
    IF response.status = 200 /\ response.shape \in {"items", "items_null"}
    THEN [exc |-> NoError, shape |-> response.shape, items |-> response.items]
    ELSE [exc |-> NoError, shape |-> "items", items |-> <<>>]

get_friends(response) ==
    LET friends_request == check_response(response)
        body == friends_request.body
    IN  IF friends_request.exc # NoCause
        THEN [exc |-> WrapFetch(friends_request.exc), shape |-> "none", items |-> <<>>]
        ELSE IF body.shape = "no_response"
        THEN [exc |-> WrapFetch([type |-> "KeyError", status |-> 200, detail |-> "response"]),
              shape |-> "none", items |-> <<>>]
        ELSE IF body.shape = "no_items"
        THEN [exc |-> WrapFetch([type |-> "KeyError", status |-> 200, detail |-> "items"]),
              shape |-> "none", items |-> <<>>]
        ELSE [exc |-> NoError, shape |-> body.shape, items |-> body.items]

(***************************************************************************)
(* The output file and the writers.                                        *)
(***************************************************************************)
\* no file of that name
AbsentFile == [exists |-> FALSE, old |-> FALSE, delimiter |-> "", header |-> <<>>, rows |-> <<>>]

\* a file left by an earlier run
OldFile == [exists |-> TRUE, old |-> TRUE, delimiter |-> "", header |-> <<>>, rows |-> <<>>]

\* open(name, "w"): created or truncated
OpenedFile == [exists |-> TRUE, old |-> FALSE, delimiter |-> "", header |-> <<>>, rows |-> <<>>]

NoFault == [at |-> "none", exc |-> "none", k |-> 0]

\* what can go wrong inside a writer: open() fails, or the k+1-th record fails
WriterFaults(report) ==
    {NoFault, [at |-> "open", exc |-> "IOError", k |-> 0]}
    \cup {[at |-> "body", exc |-> e, k |-> k] :
              e \in {"TypeError", "ValueError", "IOError"}, k \in 0..(Len(report) - 1)}

\* the exceptions each writer's except clause names
\* the except clause without IndexError
CaughtCsvTsv_no_index == {"TypeError", "ValueError", "IOError"}

CaughtCsvTsv == {"TypeError", "ValueError", "IOError", "IndexError"}

CaughtJson == {"TypeError", "IOError"}

CaughtYaml == {"TypeError", "IOError"}

\* the with-block of write_csv_tsv_file: [exc raised in it, file left behind]
CsvTsvBody(fmt, report, f0, fault) ==
    LET delimiter == IF fmt = "csv" THEN "," ELSE "\t"
        opened == [OpenedFile EXCEPT !.delimiter = delimiter]
    IN  IF fault.at = "open" THEN [exc |-> fault.exc, file |-> f0]
        ELSE IF report = <<>> THEN [exc |-> "IndexError", file |-> opened]   \* friends_list[0]
        ELSE IF fault.at = "body"
        THEN [exc |-> fault.exc,
              file |-> [opened EXCEPT !.header = FIELDS, !.rows = SubSeq(report, 1, fault.k)]]
        ELSE [exc |-> "none", file |-> [opened EXCEPT !.header = FIELDS, !.rows = report]]

\* the with-block of write_json_file and of write_yaml_file
DumpBody(report, f0, fault) ==
    IF fault.at = "open" THEN [exc |-> fault.exc, file |-> f0]
    ELSE IF fault.at = "body"
    THEN [exc |-> fault.exc, file |-> [OpenedFile EXCEPT !.rows = SubSeq(report, 1, fault.k)]]
    ELSE [exc |-> "none", file |-> [OpenedFile EXCEPT !.rows = report]]

\* the table without its tsv entry
WriteMethod_no_tsv(fmt) == CASE fmt = "csv" -> "write_csv_tsv_file"
                             [] fmt = "json" -> "write_json_file"
                             [] fmt = "yaml" -> "write_yaml_file"
                             [] OTHER -> ""

\* create_report's output_formats table: the write method of a format ("" : none)
WriteMethod(fmt) == CASE fmt = "csv" -> "write_csv_tsv_file"
                      [] fmt = "json" -> "write_json_file"
                      [] fmt = "tsv" -> "write_csv_tsv_file"
                      [] fmt = "yaml" -> "write_yaml_file"
                      [] OTHER -> ""

\* the formats the ValueError's message lists
AllowedInMessage == <<"csv", "json", "tsv", "yaml">>

LogExtract(person) == [event |-> "Extracting data from user",
                       first_name |-> person["first_name"],
                       last_name |-> person["last_name"]]

LogWriteError == [event |-> "Error while creating file", first_name |-> None, last_name |-> None]

(***************************************************************************)
(* The inputs of a run.                                                    *)
(***************************************************************************)
InitDefaultCount == 1000     \* Paginator.__init__(count=1000)

CallDefaultCount == 1000     \* get_all_friends(count=1000)

Alice == <<"A", "l", "i", "c", "e">>
Bob == <<"B", "o", "b">>
Al == <<"A", "l">>
Carol == <<"C", "a", "r", "o", "l">>
LowerBob == <<"b", "o", "b">>
Russia == <<"R", "u", "s", "s", "i", "a">>
Date15031990 == <<"1", "5", ".", "0", "3", ".", "1", "9", "9", "0">>
Date1503 == <<"1", "5", ".", "0", "3">>

RosterNames == <<Bob, Alice, Carol, Alice, Al, LowerBob>>

\* six friends with distinct ids, as the API returns them
Roster == [i \in 1..6 |->
    [id |-> Num(i),
     first_name |-> Str(RosterNames[i]),
     last_name |-> Str(<<"L", Digits[i + 1]>>),
     country |-> IF i % 3 = 1 THEN Map({"id", "title"}, Russia)
                 ELSE IF i % 3 = 2 THEN None ELSE Absent,
     city |-> IF i % 2 = 1 THEN Map({"id"}, <<>>) ELSE Absent,
     bdate |-> IF i % 3 = 1 THEN Str(Date15031990)
               ELSE IF i % 3 = 2 THEN Str(Date1503) ELSE Absent,
     sex |-> Num(1 + (i % 2))]]

NoFirstName == [Roster[3] EXCEPT !["first_name"] = Absent]

NullFirstName == [Roster[5] EXCEPT !["first_name"] = None]

NumericBdate == [Roster[3] EXCEPT !["bdate"] = Num(1990)]

RawPool == {Roster[1], Roster[2], NoFirstName, NullFirstName, NumericBdate}

RECURSIVE SeqsUpTo(_, _)
\* the sequences over S of length at most n
SeqsUpTo(S, n) == IF n = 0 THEN {<<>>}
                  ELSE LET shorter == SeqsUpTo(S, n - 1)
                       IN  shorter \cup {Append(q, x) : q \in shorter, x \in S}

ServerLists == SeqsUpTo(RawPool, MaxFriends)
               \cup {SubSeq(Roster, 1, n) : n \in 0..Min(MaxItems, Len(Roster))}

PageSizes == 1..MaxPageSize

Formats == {"csv", "json", "tsv", "yaml", "xml"}

\* no raw record yet
NoFriend == [k \in RawKeys |-> Absent]

NotReturned == [returned |-> FALSE, val |-> <<>>]

NoResponse == [status |-> 0, shape |-> "none", items |-> <<>>]

Init ==
    /\ friendsDb \in ServerLists
    /\ selfCount \in PageSizes \cup {InitDefaultCount}
    /\ callCount \in PageSizes \cup {CallDefaultCount}
    /\ output_format \in Formats
    /\ fileInit \in {AbsentFile, OldFile}
    /\ file = fileInit
    /\ pc = "get_all_friends"
    /\ offset = 0
    /\ friends_list = <<>>
    /\ requests = <<>>
    /\ lastResponse = NoResponse
    /\ friends = NotReturned
    /\ sorted_friends = <<>>
    /\ friend = NoFriend
    /\ current_friend = NoPerson
    /\ report_list = <<>>
    /\ log = <<>>
    /\ writer = ""
    /\ error = NoError

(***************************************************************************)
(* Paginator.get_all_friends: one turn of the while loop.  The request     *)
(* carries self.count; the short-page test and the offset step use the     *)
(* count argument.  FriendsParser.parse returns what the loop returns.     *)
(***************************************************************************)
GetAllFriendsPage ==
    /\ pc = "get_all_friends"
    /\ \E response \in Responses(friendsDb, offset, selfCount) :
         LET page == get_friends(response)
         IN  /\ requests' = Append(requests, [offset |-> offset, count |-> selfCount])
             /\ lastResponse' = response
             /\ IF page.exc # NoError
                THEN /\ error' = page.exc
                     /\ pc' = "failed"
                     /\ UNCHANGED <<friends_list, offset, friends>>
                ELSE IF page.shape = "items_null"
                THEN /\ error' = Exc("TypeError", "'NoneType' object is not iterable")
                     /\ pc' = "failed"
                     /\ UNCHANGED <<friends_list, offset, friends>>
                ELSE /\ friends_list' = friends_list \o page.items
                     /\ error' = error
                     /\ IF Len(page.items) < callCount
                        THEN /\ friends' = [returned |-> TRUE, val |-> friends_list']
                             /\ pc' = "create_report"
                             /\ offset' = offset
                        ELSE /\ offset' = offset + callCount
                             /\ pc' = pc
                             /\ friends' = friends
    /\ UNCHANGED <<friendsDb, selfCount, callCount, output_format, sorted_friends,
                   friend, current_friend, report_list, log, writer, fileInit, file>>

(***************************************************************************)
(* FriendsParser.create_report.                                            *)
(***************************************************************************)
\* sorted(friends_list, key=lambda d: d["first_name"])
CreateReportSort ==
    /\ pc = "create_report"
    /\ LET r == SortedByFirstName(friends.val)
       IN  IF r.exc # "none"
           THEN /\ error' = Exc(r.exc, "first_name")
                /\ pc' = "failed"
                /\ sorted_friends' = sorted_friends
           ELSE /\ sorted_friends' = r.val
                /\ pc' = "extract"
                /\ error' = error
    /\ UNCHANGED <<friendsDb, selfCount, callCount, output_format, offset, friends_list,
                   requests, lastResponse, friends, friend, current_friend, report_list,
                   log, writer, fileInit, file>>

\* one turn of the for loop: extract_data, append, logger.info
CreateReportExtract ==
    /\ pc = "extract"
    /\ Len(report_list) < Len(sorted_friends)
    /\ friend' = sorted_friends[Len(report_list) + 1]
    /\ LET r == extract_data(friend')
       IN  IF r.exc # "none"
           THEN /\ error' = Exc(r.exc, r.field)
                /\ pc' = "failed"
                /\ UNCHANGED <<current_friend, report_list, log>>
           ELSE /\ current_friend' = r.person
                /\ report_list' = Append(report_list, r.person)
                /\ log' = Append(log, LogExtract(r.person))
                /\ UNCHANGED <<error, pc>>
    /\ UNCHANGED <<friendsDb, selfCount, callCount, output_format, offset, friends_list,
                   requests, lastResponse, friends, sorted_friends, writer, fileInit, file>>

\* output_formats.get(self.output_format), then the call or the ValueError
CreateReportDispatch ==
    /\ pc = "extract"
    /\ Len(report_list) = Len(sorted_friends)
    /\ LET write_method == WriteMethod(output_format)
       IN  IF write_method # ""
           THEN /\ writer' = write_method
                /\ pc' = write_method
                /\ error' = error
           ELSE /\ error' = [Exc("ValueError", "Invalid output file format") EXCEPT
                                 !.args = <<output_format>> \o AllowedInMessage]
                /\ pc' = "failed"
                /\ writer' = writer
    /\ UNCHANGED <<friendsDb, selfCount, callCount, output_format, offset, friends_list,
                   requests, lastResponse, friends, sorted_friends, friend, current_friend,
                   report_list, log, fileInit, file>>

\* the end of a writer: the with-block's exception is logged if the except clause
\* names it, and leaves create_report otherwise
WriterEnd(body, caught) ==
    /\ file' = body.file
    /\ IF body.exc = "none"
       THEN /\ pc' = "done"
            /\ UNCHANGED <<log, error>>
       ELSE IF body.exc \in caught
       THEN /\ pc' = "done"
            /\ log' = Append(log, LogWriteError)
            /\ error' = error
       ELSE /\ pc' = "failed"
            /\ error' = Exc(body.exc, "writer")
            /\ log' = log
    /\ UNCHANGED <<friendsDb, selfCount, callCount, output_format, offset, friends_list,
                   requests, lastResponse, friends, sorted_friends, friend, current_friend,
                   report_list, writer, fileInit>>

WriteCsvTsvFile ==
    /\ pc = "write_csv_tsv_file"
    /\ \E fault \in WriterFaults(report_list) :
         WriterEnd(CsvTsvBody(output_format, report_list, file, fault), CaughtCsvTsv)

WriteJsonFile ==
    /\ pc = "write_json_file"
    /\ \E fault \in WriterFaults(report_list) :
         WriterEnd(DumpBody(report_list, file, fault), CaughtJson)

WriteYamlFile ==
    /\ pc = "write_yaml_file"
    /\ \E fault \in WriterFaults(report_list) :
         WriterEnd(DumpBody(report_list, file, fault), CaughtYaml)

Next ==
    \/ GetAllFriendsPage
    \/ CreateReportSort
    \/ CreateReportExtract
    \/ CreateReportDispatch
    \/ WriteCsvTsvFile
    \/ WriteJsonFile
    \/ WriteYamlFile

Spec == Init /\ [][Next]_vars

(***************************************************************************)
(* extract_data called on one raw record, over the shapes a field can take.*)
(***************************************************************************)
Moscow == <<"M", "o", "s", "c", "o", "w">>

\* absent, null, falsy ({} 0 ""), mappings without and with a title, other truthy values
PlaceShapes == {Absent, None, Map({}, <<>>), Num(0), Str(<<>>),
                Map({"id"}, <<>>), Map({"id", "title"}, Russia),
                Map({"title"}, Moscow), Num(1), Str(Russia)}

\* "d.m.Y", written with or without leading zeros
FmtDMY(d, m, y, padded) ==
    IF padded THEN Pad(d, 2) \o <<".">> \o Pad(m, 2) \o <<".">> \o Pad(y, 4)
    ELSE Dec(d) \o <<".">> \o Dec(m) \o <<".">> \o Dec(y)

GridDays == {0, 1, 9, 10, 15, 28, 29, 30, 31, 32}
GridMonths == {0, 1, 2, 4, 9, 10, 12, 13}
GridYears == {0, 1, 1900, 1990, 2000, 2024, 9999}

GridDates == {FmtDMY(d, m, y, padded) :
                  d \in GridDays, m \in GridMonths, y \in GridYears, padded \in BOOLEAN}

MalformedDates == {
    <<>>,
    Date1503,
    <<"1", "5", ".", "0", "3", ".">>,
    <<"1", "5", ".", "0", "3", ".", "9", "0">>,
    <<"1", "5", ".", "0", "3", ".", "1", "9", "9", "0", "0">>,
    <<"1", "5", ".", "0", "3", ".", "1", "9", "9", "0", " ">>,
    <<"1", "5", ".", "0", "3", ".", "1", "9", "9", "0", ".", "1">>,
    <<" ", "5", ".", "3", ".", "1", "9", "9", "0">>,
    <<" ", "1", "5", ".", "3", ".", "1", "9", "9", "0">>,
    <<"1", "9", "9", "0", "-", "0", "3", "-", "1", "5">>,
    <<"1", "5", "/", "0", "3", "/", "1", "9", "9", "0">>,
    <<"a", "b", "c">> }

BdateShapes == {Absent, None, Num(0), Num(1990), Map({"id"}, <<>>)}
               \cup {Str(d) : d \in GridDates \cup MalformedDates}

FewBdates == {Absent, None, Str(Date15031990), Str(Date1503), Num(1990)}

ExtractInputs ==
    {[id |-> Num(1), first_name |-> Str(Alice), last_name |-> Str(Bob),
      country |-> c, city |-> Absent, bdate |-> b, sex |-> Num(2)] :
         c \in {Absent, Map({"id", "title"}, Russia), Str(Russia)}, b \in BdateShapes}
    \cup
    {[id |-> Num(1), first_name |-> fn, last_name |-> ln,
      country |-> c, city |-> ci, bdate |-> b, sex |-> sx] :
         fn \in {Absent, None, Str(Alice)}, ln \in {Absent, Str(Bob)},
         c \in PlaceShapes, ci \in PlaceShapes, b \in FewBdates,
         sx \in {Absent, None, Num(2)}}

InitExtract ==
    /\ friend \in ExtractInputs
    /\ pc = "extract_data"
    /\ friendsDb = <<>>
    /\ selfCount = InitDefaultCount
    /\ callCount = CallDefaultCount
    /\ output_format = "csv"
    /\ fileInit = AbsentFile
    /\ file = fileInit
    /\ offset = 0
    /\ friends_list = <<>>
    /\ requests = <<>>
    /\ lastResponse = NoResponse
    /\ friends = NotReturned
    /\ sorted_friends = <<>>
    /\ current_friend = NoPerson
    /\ report_list = <<>>
    /\ log = <<>>
    /\ writer = ""
    /\ error = NoError

\* current_friend = self.extract_data(friend)
ExtractData ==
    /\ pc = "extract_data"
    /\ LET r == extract_data(friend)
       IN  IF r.exc # "none"
           THEN /\ error' = Exc(r.exc, r.field)
                /\ pc' = "failed"
                /\ current_friend' = current_friend
           ELSE /\ current_friend' = r.person
                /\ pc' = "done"
                /\ error' = error
    /\ UNCHANGED <<friendsDb, selfCount, callCount, output_format, offset, friends_list,
                   requests, lastResponse, friends, sorted_friends, friend, report_list,
                   log, writer, fileInit, file>>

NextExtract == ExtractData

SpecExtract == InitExtract /\ [][NextExtract]_vars

(***************************************************************************)
(* Properties: the paginator.                                              *)
(***************************************************************************)
\* C1: against a server returning the slice [offset, offset+count) of N items, a
\* Paginator configured with page size p issues exactly floor(N/p)+1 page requests
\* and then stops (stated for get_all_friends() called as parse() calls it).
C1_RequestCount ==
    (friends.returned /\ callCount = CallDefaultCount)
        => Len(requests) = (Len(friendsDb) \div selfCount) + 1

\* C10: for a Paginator configured with page size p, the i-th request carries
\* offset = i*p and count = p, and get_all_friends returns exactly the N items in
\* server order, none skipped, none duplicated (get_all_friends() called as parse()
\* calls it).
C10_PagesInOrder ==
    (friends.returned /\ callCount = CallDefaultCount)
        => /\ \A i \in 1..Len(requests) :
                  requests[i] = [offset |-> (i - 1) * selfCount, count |-> selfCount]
           /\ friends.val = friendsDb

\* a page request that failed: a non-200 status, or a body without response.items
IsFetchFailure(response) ==
    \/ response.status \notin {0, 200}
    \/ response.shape \in {"no_response", "no_items"}

\* C2: a failed page request is re-raised as a fetch error carrying the cause, no
\* further page request is issued, the accumulated items are never returned, no
\* record is extracted and no output file is written.
C2_FetchFailureIsFatal ==
    /\ [](IsFetchFailure(lastResponse) =>
            /\ pc = "failed"
            /\ error.type = "Exception" /\ error.msg = FetchMsg
            /\ error.cause # NoCause
            /\ error.cause.status = lastResponse.status
            /\ error.cause.type = (IF lastResponse.status = 200 THEN "KeyError" ELSE "Exception")
            /\ ~friends.returned
            /\ friend = NoFriend /\ report_list = <<>> /\ log = <<>>
            /\ writer = "" /\ file = fileInit)
    /\ [][IsFetchFailure(lastResponse) =>
            (requests' = requests /\ friends' = friends /\ file' = file)]_vars

\* a second page fails after the first page was accumulated
C2_Witness ==
    /\ IsFetchFailure(lastResponse) /\ pc = "failed"
    /\ Len(requests) = 2 /\ friends_list # <<>>
    /\ lastResponse.status = 404 /\ error.cause.detail = "not found"

(***************************************************************************)
(* Properties: create_report.                                              *)
(***************************************************************************)
LacksFirstName(l) == \E i \in 1..Len(l) : l[i]["first_name"].t = "absent"

\* C3: if any record given to create_report lacks first_name, create_report fails
\* with a key error before the first record is extracted or logged, no writer is
\* invoked and the output file is left as it was, whatever the record's position
\* and the format.
C3_MissingFirstNameAborts ==
    (friends.returned /\ LacksFirstName(friends.val) /\ pc # "create_report")
        => /\ pc = "failed"
           /\ error.type = "KeyError" /\ error.msg = "first_name"
           /\ friend = NoFriend /\ current_friend = NoPerson
           /\ report_list = <<>> /\ log = <<>>
           /\ writer = "" /\ file = fileInit

\* the second of two records lacks first_name, json format, a file already there
C3_Witness ==
    /\ pc = "failed" /\ error.type = "KeyError"
    /\ Len(friends.val) = 2
    /\ friends.val[1]["first_name"].t = "str"
    /\ friends.val[2]["first_name"].t = "absent"
    /\ output_format = "json" /\ fileInit = OldFile

SupportedFormats == {"csv", "json", "tsv", "yaml"}

\* the raw list was returned, sorts and extracts without an exception
AllExtractable ==
    /\ friends.returned
    /\ SortedByFirstName(friends.val).exc = "none"
    /\ \A i \in 1..Len(friends.val) : extract_data(friends.val[i]).exc = "none"

IsFormatError == error.type = "ValueError" /\ error.msg = "Invalid output file format"

\* C4: with a format other than csv, json, tsv, yaml, create_report fails with an
\* error whose message enumerates the allowed formats, no writer is invoked and no
\* file is written; the error is raised only after every record was sorted and
\* extracted.
C4_UnsupportedFormat ==
    /\ (output_format \notin SupportedFormats)
          => /\ writer = "" /\ file = fileInit /\ pc # "done"
             /\ (AllExtractable /\ pc = "failed")
                   => /\ IsFormatError
                      /\ error.args = <<output_format, "csv", "json", "tsv", "yaml">>
    /\ IsFormatError
          => /\ output_format \notin SupportedFormats
             /\ AllExtractable
             /\ Len(report_list) = Len(friends.val)
             /\ Len(log) = Len(friends.val)

\* xml, two records sorted and extracted, then the error
C4_Witness ==
    /\ output_format = "xml" /\ pc = "failed" /\ IsFormatError
    /\ Len(report_list) = 2 /\ writer = "" /\ file = fileInit

\* the file a writer leaves when nothing fails
CompleteFile ==
    IF writer = "write_csv_tsv_file"
    THEN [exists |-> TRUE, old |-> FALSE,
          delimiter |-> IF output_format = "csv" THEN "," ELSE "\t",
          header |-> <<"first_name", "last_name", "country", "city", "bdate", "sex">>,
          rows |-> report_list]
    ELSE [exists |-> TRUE, old |-> FALSE, delimiter |-> "", header |-> <<>>,
          rows |-> report_list]

LoggedWriteError == log # <<>> /\ log[Len(log)] = LogWriteError

\* C5: a type error, a filesystem error or the delimited writer's empty-report
\* error inside any of the three writers is caught and logged in the writer and
\* never leaves create_report, which returns normally.
C5_WriterFailuresSwallowed ==
    /\ (pc = "failed" /\ writer # "")
          => error.type \notin {"TypeError", "IOError", "IndexError"}
    /\ (pc = "done" /\ file # CompleteFile) => LoggedWriteError
    /\ (pc = "done" /\ file = CompleteFile /\ report_list # <<>>) => ~LoggedWriteError

\* the delimited writer given an empty report
C5_Witness ==
    /\ pc = "done" /\ writer = "write_csv_tsv_file" /\ report_list = <<>>
    /\ LoggedWriteError /\ error = NoError

\* C6: whenever a writer fails, the output file has not been created, and a
\* pre-existing file of that name has not been truncated or partially written.
C6_NoFileOnWriterFailure ==
    (writer # "" /\ (pc = "failed" \/ (pc = "done" /\ LoggedWriteError)))
        => file = fileInit

BagOf(q) == [x \in {q[i] : i \in 1..Len(q)} |-> Cardinality({i \in 1..Len(q) : q[i] = x})]

AllStringFirstNames(l) == \A i \in 1..Len(l) : l[i]["first_name"].t = "str"

\* C7: for a raw list whose records all have a string first_name, the report
\* handed to the writer holds exactly one normalized record per raw record and
\* is ordered by non-decreasing first_name.
C7_ReportSortedComplete ==
    (writer # "" /\ AllStringFirstNames(friends.val))
        => /\ Len(report_list) = Len(friends.val)
           /\ BagOf(report_list)
                = BagOf([i \in 1..Len(friends.val) |-> extract_data(friends.val[i]).person])
           /\ \A i, j \in 1..Len(report_list) :
                  i < j => ~StrLess(report_list[j]["first_name"].s,
                                    report_list[i]["first_name"].s)

\* Bob, Alice come out as Alice, Bob
C7_Witness ==
    /\ writer # "" /\ Len(friends.val) = 2
    /\ friends.val[1]["first_name"] = Str(Bob) /\ friends.val[2]["first_name"] = Str(Alice)
    /\ Len(report_list) = 2
    /\ report_list[1]["first_name"] = Str(Alice) /\ report_list[2]["first_name"] = Str(Bob)

(***************************************************************************)
(* Properties: extract_data (checked under SpecExtract).                   *)
(***************************************************************************)
\* the ways strptime's "%d.%m.%Y" lets day d, month m, year y be written
WrittenForms(d, m, y) ==
    {dd \o <<".">> \o mm \o <<".">> \o Pad(y, 4) :
        dd \in {Pad(d, 2), Dec(d)} \cup (IF d < 10 THEN {<<" ">> \o Dec(d)} ELSE {}),
        mm \in {Pad(m, 2), Dec(m)}}

\* the calendar dates of the years the inputs use
CalendarDates ==
    {<<d, m, y>> \in (1..31) \X (1..12) \X (GridYears \ {0}) : d <= DaysInMonth(y, m)}

\* the bdate the specification asks for: the ISO form of a day.month.year date,
\* null for everything else
ExpectedBdate(v) ==
    IF v.t = "str" /\ \E c \in CalendarDates : v.s \in WrittenForms(c[1], c[2], c[3])
    THEN LET c == CHOOSE c \in CalendarDates : v.s \in WrittenForms(c[1], c[2], c[3])
         IN  Str(Pad(c[3], 4) \o <<"-">> \o Pad(c[2], 2) \o <<"-">> \o Pad(c[1], 2))
    ELSE None

\* C8: extract_data never fails because of bdate: absent or null gives null, a
\* day.month.year string gives the same date as YYYY-MM-DD, and any value that
\* fails to parse (year-less, empty, malformed, or of another shape) gives null
\* instead of raising.
C8_BdateNeverRaises ==
    /\ ~(pc = "failed" /\ error.msg = "bdate")
    /\ pc = "done" => current_friend["bdate"] = ExpectedBdate(friend["bdate"])

\* what holds of the code: C8 for a bdate that is absent, null or a string
C8_StringBdate ==
    (friend["bdate"].t \in {"absent", "null", "str"})
        => /\ ~(pc = "failed" /\ error.msg = "bdate")
           /\ pc = "done" => current_friend["bdate"] = ExpectedBdate(friend["bdate"])

\* the shapes the API documents for country and city, and the falsy values
IsPlaceShape(v) == v.t \in {"absent", "null", "map"} \/ ~Truthy(v)

\* C9: country and city give the nested title for a non-empty mapping, the raw
\* value itself when null/falsy, null when absent; a normalized record has exactly
\* the six keys, with first_name, last_name and sex passed through (absent -> null).
C9_PlaceFields ==
    /\ (pc = "failed" /\ error.msg \in {"country", "city"})
          => ~IsPlaceShape(friend[error.msg])
    /\ pc = "done"
          => /\ DOMAIN current_friend
                  = {"first_name", "last_name", "country", "city", "bdate", "sex"}
             /\ \A f \in {"country", "city"} :
                    current_friend[f] =
                        (IF friend[f].t = "absent" THEN None
                         ELSE IF friend[f].t = "map" /\ friend[f].keys # {}
                         THEN (IF "title" \in friend[f].keys THEN Str(friend[f].s) ELSE None)
                         ELSE friend[f])
             /\ \A f \in {"first_name", "last_name", "sex"} :
                    current_friend[f] = (IF friend[f].t = "absent" THEN None ELSE friend[f])

\* {"id": 1, "title": "Russia"} gives "Russia", an empty mapping is kept, first_name absent
C9_Witness ==
    /\ pc = "done"
    /\ friend["country"] = Map({"id", "title"}, Russia)
    /\ current_friend["country"] = Str(Russia)
    /\ friend["city"] = Map({}, <<>>) /\ current_friend["city"] = Map({}, <<>>)
    /\ friend["first_name"] = Absent /\ current_friend["first_name"] = None

====
